---------------------------- MODULE Spec2Model ----------------------------
(***************************************************************************)
(* A model of the frame loop of subway_runner.py: Player, Obstacle, Coin,  *)
(* PowerUp, Particle and Game (handle_events, update_game, restart_game).  *)
(*                                                                         *)
(* Units and omissions:                                                    *)
(*  - obstacle_spawn_delay is kept in tenths (600 = 60.0): the code        *)
(*    subtracts 0.3 per spawn.  The double the code holds is, after any    *)
(*    subtraction, never below the exact value and strictly above it where *)
(*    the exact value is a whole number (57.00000000000003, ...,           *)
(*    30.00000000000026), which DelayReached and DelayAboveFloor follow.   *)
(*  - coin x and y are kept in half pixels (the magnet moves a coin by     *)
(*    1.5 times an integer offset); every other coordinate is in pixels.   *)
(*  - drawing-only state (bob_offset, rotation, pulse, obstacle type,      *)
(*    particle position, velocity and colour, sounds) is left out; a       *)
(*    particle is its remaining life.                                      *)
(*  - frame, accepted, move_updates, since and activations are history     *)
(*    variables: they record what happened and no guard of the program     *)
(*    reads them.  since[e] counts the live frames since effect e was last *)
(*    activated, while it is active; activations lists the calls of        *)
(*    activate_powerup, each with its type and the frame count at the call;*)
(*    faced[i] tells whether, ever since obstacles[i] was created, the     *)
(*    player has stood in its lane, not moving and not invulnerable.       *)
(***************************************************************************)
EXTENDS Integers, Sequences, FiniteSets

VARIABLES
    player, obstacles, coins, power_ups, particles,
    score, coins_collected, high_score, game_over, background_y,
    obstacle_spawn_timer, obstacle_spawn_delay,
    coin_spawn_timer, coin_spawn_delay,
    powerup_spawn_timer, powerup_spawn_delay,
    shield_active, shield_timer, magnet_active, magnet_timer,
    double_score_active, double_score_timer,
    frame, accepted, move_updates, since, activations, faced

\* the program's own state
gvars == <<player, obstacles, coins, power_ups, particles,
           score, coins_collected, high_score, game_over, background_y,
           obstacle_spawn_timer, obstacle_spawn_delay,
           coin_spawn_timer, coin_spawn_delay,
           powerup_spawn_timer, powerup_spawn_delay,
           shield_active, shield_timer, magnet_active, magnet_timer,
           double_score_active, double_score_timer>>

hvars == <<frame, accepted, move_updates, since, activations, faced>>

vars == <<gvars, hvars>>

----------------------------------------------------------------------------
\* Bounds of the exploration

\* live frames explored by Spec (all key events allowed)
MaxFrame == 150
\* live frames explored by SpecReplay (restart key only)
MaxReplayFrame == 300
\* live frames explored by SpecLong (no key events, one session)
MaxLongFrame == 960
\* SpecActivate: calls of activate_powerup, the frames before which they are
\* made, and the live frames explored
MaxActivations == 2
MaxActivateAt == 6
MaxActivateFrame == 310
\* SpecMagnet: the frame from which keys are pressed and the live frames
\* explored
MagnetKeysFrom == 657
MaxMagnetFrame == 720
\* SpecPickup: the frame at which activate_powerup is called and from which
\* keys are pressed, and the live frames explored
PickupFrom == 600
MaxPickupFrame == 675
\* SpecRevive: the frame from which obstacles come down the middle lane, and
\* the live frames explored
ReviveFrom == 650
MaxReviveFrame == 1000
\* live frames explored by SpecRamp (no key events, the middle lane empty)
MaxRampFrame == 4640

----------------------------------------------------------------------------
\* Program constants

SCREEN_WIDTH == 800
SCREEN_HEIGHT == 600
LANE_WIDTH == SCREEN_WIDTH \div 3
LANE_POSITIONS == << LANE_WIDTH \div 2,
                     SCREEN_WIDTH \div 2,
                     SCREEN_WIDTH - LANE_WIDTH \div 2 >>

Lanes == 0..2
\* LANE_POSITIONS[lane]; a Python list takes index -1 as its last element
LanePos(lane) == LANE_POSITIONS[IF lane < 0 THEN lane + 4 ELSE lane + 1]

PLAYER_WIDTH == 40
PLAYER_HEIGHT == 60
PLAYER_Y == SCREEN_HEIGHT - 150
MOVE_SPEED == 12

OBSTACLE_SIZE == 50
OBSTACLE_INSET == 5
COIN_SIZE == 30
POWERUP_SIZE == 40
FALL_SPEED == 8
PARTICLE_LIFE == 30

INITIAL_OBSTACLE_DELAY == 600
DELAY_STEP == 3
DELAY_FLOOR == 300
COIN_DELAY == 90
POWERUP_DELAY == 600
EFFECT_DURATION == 300

OBSTACLE_SCORE == 10
COIN_SCORE == 50
IDLE_SCORE == 1

MAGNET_RANGE == 200
MAGNET_COLLECT == 80
MAGNET_PULL == 150

BACKGROUND_STEP == 5

CRASH_PARTICLES == 10
SHIELD_HIT_PARTICLES == 8
MAGNET_PARTICLES == 3
COIN_PARTICLES == 6
POWERUP_PARTICLES == 8

PowerTypes == {"shield", "magnet", "double_score"}
MoveKeys == {"K_LEFT", "K_a", "K_RIGHT", "K_d"}
Keys == MoveKeys \cup {"K_SPACE"}

Abs(n) == IF n < 0 THEN -n ELSE n

----------------------------------------------------------------------------
\* Player

NewPlayer ==
    [ current_lane |-> 1,
      x |-> LanePos(1) - PLAYER_WIDTH \div 2,
      moving |-> FALSE,
      target_x |-> LanePos(1) - PLAYER_WIDTH \div 2,
      invulnerable |-> FALSE,
      invulnerable_timer |-> 0,
      flash_timer |-> 0 ]

CanMoveLeft_noEdge(p) == ~p.moving
CanMoveLeft(p) == p.current_lane > 0 /\ ~p.moving

CanMoveRight_whileMoving(p) == p.current_lane < 2
CanMoveRight(p) == p.current_lane < 2 /\ ~p.moving

move_left(p) ==
    IF CanMoveLeft(p)
    THEN [p EXCEPT !.current_lane = p.current_lane - 1,
                   !.target_x = LanePos(p.current_lane - 1) - PLAYER_WIDTH \div 2,
                   !.moving = TRUE]
    ELSE p

move_right(p) ==
    IF CanMoveRight(p)
    THEN [p EXCEPT !.current_lane = p.current_lane + 1,
                   !.target_x = LanePos(p.current_lane + 1) - PLAYER_WIDTH \div 2,
                   !.moving = TRUE]
    ELSE p

\* the lane change of Player.update
\* (mutant: x snaps to the target but the flag is cleared one update later)
Player_slide_lateClear(p) ==
    IF p.moving
    THEN IF p.x = p.target_x THEN [p EXCEPT !.moving = FALSE]
         ELSE IF Abs(p.x - p.target_x) < MOVE_SPEED THEN [p EXCEPT !.x = p.target_x]
         ELSE IF p.x < p.target_x THEN [p EXCEPT !.x = p.x + MOVE_SPEED]
         ELSE [p EXCEPT !.x = p.x - MOVE_SPEED]
    ELSE p

\* (mutant: no snap, the step is always a full one)
Player_slide_noSnap(p) ==
    IF p.moving
    THEN IF p.x = p.target_x THEN [p EXCEPT !.moving = FALSE]
         ELSE IF p.x < p.target_x THEN [p EXCEPT !.x = p.x + MOVE_SPEED]
         ELSE [p EXCEPT !.x = p.x - MOVE_SPEED]
    ELSE p

Player_slide(p) ==
    IF p.moving
    THEN IF Abs(p.x - p.target_x) < MOVE_SPEED
         THEN [p EXCEPT !.x = p.target_x, !.moving = FALSE]
         ELSE IF p.x < p.target_x THEN [p EXCEPT !.x = p.x + MOVE_SPEED]
         ELSE [p EXCEPT !.x = p.x - MOVE_SPEED]
    ELSE p

\* the invulnerability countdown of Player.update
\* (mutant: cleared below 0 instead of at 0)
Player_invulnerability_late(p) ==
    IF p.invulnerable
    THEN IF p.invulnerable_timer - 1 < 0
         THEN [p EXCEPT !.invulnerable_timer = p.invulnerable_timer - 1,
                        !.invulnerable = FALSE,
                        !.flash_timer = 0]
         ELSE [p EXCEPT !.invulnerable_timer = p.invulnerable_timer - 1,
                        !.flash_timer = p.flash_timer + 1]
    ELSE p
Player_invulnerability(p) ==
    IF p.invulnerable
    THEN IF p.invulnerable_timer - 1 <= 0
         THEN [p EXCEPT !.invulnerable_timer = p.invulnerable_timer - 1,
                        !.invulnerable = FALSE,
                        !.flash_timer = 0]
         ELSE [p EXCEPT !.invulnerable_timer = p.invulnerable_timer - 1,
                        !.flash_timer = p.flash_timer + 1]
    ELSE p

Player_update(p) == Player_invulnerability(Player_slide(p))

Rect(x, y, w, h) == [x |-> x, y |-> y, w |-> w, h |-> h]

\* pygame.Rect.colliderect: the rectangles share an area (touching edges do not)
colliderect(a, b) ==
    /\ a.x < b.x + b.w
    /\ a.x + a.w > b.x
    /\ a.y < b.y + b.h
    /\ a.y + a.h > b.y

Player_get_rect(p) == Rect(p.x, PLAYER_Y, PLAYER_WIDTH, PLAYER_HEIGHT)


----------------------------------------------------------------------------
\* Obstacle, Coin, PowerUp, Particle

NewObstacle(lane) ==
    [ lane |-> lane, x |-> LanePos(lane) - OBSTACLE_SIZE \div 2, y |-> -OBSTACLE_SIZE ]

\* (mutant: the full square instead of the inset one)
Obstacle_get_rect_full(o) == Rect(o.x, o.y, OBSTACLE_SIZE, OBSTACLE_SIZE)
Obstacle_get_rect(o) ==
    Rect(o.x + OBSTACLE_INSET, o.y + OBSTACLE_INSET,
         OBSTACLE_SIZE - 2 * OBSTACLE_INSET, OBSTACLE_SIZE - 2 * OBSTACLE_INSET)

\* (mutant: a step longer than the player and the obstacle are high together)
Obstacle_update_leap(o) == [o EXCEPT !.y = o.y + 14 * FALL_SPEED]
Obstacle_update(o) == [o EXCEPT !.y = o.y + FALL_SPEED]
\* (mutant: the bottom edge is compared instead of the top edge)
Obstacle_is_off_screen_bottom(o) == o.y + OBSTACLE_SIZE > SCREEN_HEIGHT
Obstacle_is_off_screen(o) == o.y > SCREEN_HEIGHT

\* coin x, y in half pixels
NewCoin(lane) ==
    [ lane |-> lane, x |-> 2 * (LanePos(lane) - COIN_SIZE \div 2), y |-> 2 * (-COIN_SIZE) ]

\* pygame.Rect keeps whole pixels: a fractional coordinate is cut
Coin_get_rect(c) == Rect(c.x \div 2, c.y \div 2, COIN_SIZE, COIN_SIZE)
Coin_update(c) == [c EXCEPT !.y = c.y + 2 * FALL_SPEED]
Coin_is_off_screen(c) == c.y > 2 * SCREEN_HEIGHT

NewPowerUp(lane, power_type) ==
    [ lane |-> lane, x |-> LanePos(lane) - POWERUP_SIZE \div 2, y |-> -POWERUP_SIZE,
      type |-> power_type ]

PowerUp_get_rect(u) == Rect(u.x, u.y, POWERUP_SIZE, POWERUP_SIZE)
PowerUp_update(u) == [u EXCEPT !.y = u.y + FALL_SPEED]
PowerUp_is_off_screen(u) == u.y > SCREEN_HEIGHT

Particle_update(life) == life - 1
Particle_is_dead(life) == life <= 0

\* create_particles: count particles, each with a full life
create_particles(count) == [i \in 1..count |-> PARTICLE_LIFE]

\* "for e in list[:]: e.update(); if e.is_off_screen(): list.remove(e)"
ObstaclesGone(obs) ==
    {i \in DOMAIN obs : Obstacle_is_off_screen(Obstacle_update(obs[i]))}
ObstaclesUpdated(obs) ==
    SelectSeq([i \in DOMAIN obs |-> Obstacle_update(obs[i])],
              LAMBDA o : ~Obstacle_is_off_screen(o))
CoinsUpdated(cs) ==
    SelectSeq([i \in DOMAIN cs |-> Coin_update(cs[i])],
              LAMBDA c : ~Coin_is_off_screen(c))
PowerUpsUpdated(us) ==
    SelectSeq([i \in DOMAIN us |-> PowerUp_update(us[i])],
              LAMBDA u : ~PowerUp_is_off_screen(u))
ParticlesUpdated(ps) ==
    SelectSeq([i \in DOMAIN ps |-> Particle_update(ps[i])],
              LAMBDA life : ~Particle_is_dead(life))

\* (mutant: everything from the i-th element on is dropped)
RemoveAt_from(seq, i) == SubSeq(seq, 1, i - 1)
RemoveAt(seq, i) == [j \in 1..(Len(seq) - 1) |-> IF j < i THEN seq[j] ELSE seq[j + 1]]

----------------------------------------------------------------------------
\* Scoring

\* (mutant: the doubling is forgotten)
ScoreGain_single(base, doubled) == base
ScoreGain(base, doubled) == IF doubled THEN base * 2 ELSE base

\* n events of the same gain: "self.score += score_gain" n times
\* (mutant: "-=" written for "+=")
AddScore_subtract(s, n, gain) == s - n * gain
AddScore(s, n, gain) == s + n * gain

\* "if self.score > self.high_score: self.high_score = self.score"
\* (mutant: the comparison is dropped)
NewHighScore_always(s, high) == s
NewHighScore(s, high) == IF s > high THEN s ELSE high

----------------------------------------------------------------------------
\* Spawner

\* "timer >= delay", the delay in tenths; see the note on the double above
DelayReached(timer, delay) ==
    IF delay = INITIAL_OBSTACLE_DELAY THEN timer * 10 >= delay ELSE timer * 10 > delay

\* "delay > 30": the double at exact 30.0 is 30.00000000000026
DelayAboveFloor(delay) == delay >= DELAY_FLOOR

\* "timer >= delay" of the coin and power-up counters
\* (mutant: ">" written for ">=")
SpawnDue_strict(timer, delay) == timer > delay
SpawnDue(timer, delay) == timer >= delay

----------------------------------------------------------------------------
\* Effect timers: "if active: timer -= 1; if timer <= 0: active = False"

\* (mutants: the flag cleared one frame late, below 0, and one frame early)
EffectTick_negative(active, timer) ==
    IF active
    THEN [active |-> ~(timer - 1 < 0), timer |-> timer - 1]
    ELSE [active |-> active, timer |-> timer]
EffectTick_early(active, timer) ==
    IF active
    THEN [active |-> ~(timer - 1 <= 1), timer |-> timer - 1]
    ELSE [active |-> active, timer |-> timer]
EffectTick(active, timer) ==
    IF active
    THEN [active |-> ~(timer - 1 <= 0), timer |-> timer - 1]
    ELSE [active |-> active, timer |-> timer]

\* activate_powerup on one effect: "active = True; timer = 300"
\* (mutant: the duration is added to what is left)
EffectAfterPickup_stacking(picked, e) ==
    IF picked THEN [active |-> TRUE, timer |-> e.timer + EFFECT_DURATION] ELSE e
EffectAfterPickup(picked, e) ==
    IF picked THEN [active |-> TRUE, timer |-> EFFECT_DURATION] ELSE e

\* activate_powerup("shield") on the player
PlayerAfterPickup(picked, p) ==
    IF picked
    THEN [p EXCEPT !.invulnerable = TRUE, !.invulnerable_timer = EFFECT_DURATION]
    ELSE p

\* frames since the activation: 0 at a pick-up, one more per frame while active
SinceAfter(picked, active, n) == IF picked THEN 0 ELSE IF active THEN n + 1 ELSE n

----------------------------------------------------------------------------
\* Collisions

\* index of the first obstacle the player's rectangle overlaps, 0 if none
FirstHit(rect, obs) ==
    LET hits == {i \in DOMAIN obs : colliderect(rect, Obstacle_get_rect(obs[i]))}
    IN  IF hits = {} THEN 0 ELSE CHOOSE i \in hits : \A j \in hits : i <= j

\* "if not self.player.invulnerable"
\* (mutant: the shield is not consulted)
Fatal_always(p) == TRUE
Fatal(p) == ~p.invulnerable

\* the magnet: offsets from the coin's centre to the player's, in half pixels
CoinDx(p, c) == 2 * (p.x + PLAYER_WIDTH \div 2) - (c.x + 2 * (COIN_SIZE \div 2))
CoinDy(p, c) == 2 * (PLAYER_Y + PLAYER_HEIGHT \div 2) - (c.y + 2 * (COIN_SIZE \div 2))
CoinDist2(p, c) == CoinDx(p, c) * CoinDx(p, c) + CoinDy(p, c) * CoinDy(p, c)

\* distance < r, r in pixels
Within(p, c, r) == CoinDist2(p, c) < 4 * r * r

\* (mutant: the magnet collects only inside half the radius)
MagnetCollects_half(magnet, p, c) == magnet /\ Within(p, c, MAGNET_COLLECT \div 2)
MagnetCollects(magnet, p, c) == magnet /\ Within(p, c, MAGNET_COLLECT)

MagnetAttracts(magnet, p, c) ==
    magnet /\ Within(p, c, MAGNET_RANGE) /\ ~Within(p, c, MAGNET_COLLECT)
           /\ CoinDist2(p, c) > 0

\* d * min(1.5, 3.0 / (distance / 50)) for an offset d (half pixels), in half
\* pixels.  At distance <= 100 the factor is 1.5; above, the move is
\* 150 * d / distance, taken here in whole pixels toward zero.  With the other
\* offset 0 (coin and player in one lane) that is 150 pixels, which is also
\* what the double arithmetic gives at the offsets a falling coin has there.
Pull(d, p, c) ==
    IF CoinDist2(p, c) <= 4 * 100 * 100
    THEN IF d >= 0 THEN (3 * d) \div 2 ELSE -((3 * (-d)) \div 2)
    ELSE LET a  == Abs(d) \div 2
             ax == Abs(CoinDx(p, c)) \div 2
             ay == Abs(CoinDy(p, c)) \div 2
             dd == ax * ax + ay * ay
             m  == CHOOSE k \in 0..MAGNET_PULL :
                      /\ k * k * dd <= MAGNET_PULL * MAGNET_PULL * a * a
                      /\ (k + 1) * (k + 1) * dd > MAGNET_PULL * MAGNET_PULL * a * a
         IN  IF d >= 0 THEN 2 * m ELSE -(2 * m)

Attracted(p, c) == [c EXCEPT !.x = c.x + Pull(CoinDx(p, c), p, c),
                             !.y = c.y + Pull(CoinDy(p, c), p, c)]

\* the coin loop's effect on the list: "self.coins.remove(coin)" for the coins
\* taken, the attraction for the coins pulled
\* (mutant: a collected coin stays in the list)
CoinsAfterCollision_keep(p, cs, taken, pulled) ==
    [i \in DOMAIN cs |-> IF i \in pulled THEN Attracted(p, cs[i]) ELSE cs[i]]
CoinsAfterCollision(p, cs, taken, pulled) ==
    LET marked == SelectSeq([i \in DOMAIN cs |->
                               [c |-> IF i \in pulled THEN Attracted(p, cs[i])
                                      ELSE cs[i],
                                keep |-> i \notin taken]],
                            LAMBDA e : e.keep)
    IN  [i \in DOMAIN marked |-> marked[i].c]

\* "if collected or player_rect.colliderect(coin_rect)"
CoinTaken(magnet, p, c) ==
    MagnetCollects(magnet, p, c) \/ colliderect(Player_get_rect(p), Coin_get_rect(c))

\* (mutant: an active magnet collects a power-up nearer than 80)
PowerUpTaken_magnet(p, u) ==
    \/ colliderect(Player_get_rect(p), PowerUp_get_rect(u))
    \/ /\ magnet_active
       /\ (p.x + PLAYER_WIDTH \div 2 - (u.x + POWERUP_SIZE \div 2))
            * (p.x + PLAYER_WIDTH \div 2 - (u.x + POWERUP_SIZE \div 2))
          + (PLAYER_Y + PLAYER_HEIGHT \div 2 - (u.y + POWERUP_SIZE \div 2))
            * (PLAYER_Y + PLAYER_HEIGHT \div 2 - (u.y + POWERUP_SIZE \div 2))
          < MAGNET_COLLECT * MAGNET_COLLECT
PowerUpTaken(p, u) == colliderect(Player_get_rect(p), PowerUp_get_rect(u))

----------------------------------------------------------------------------
\* Game

Init ==
    /\ player = NewPlayer
    /\ obstacles = << >>
    /\ coins = << >>
    /\ power_ups = << >>
    /\ particles = << >>
    /\ score = 0
    /\ coins_collected = 0
    /\ high_score = 0
    /\ game_over = FALSE
    /\ background_y = 0
    /\ obstacle_spawn_timer = 0
    /\ obstacle_spawn_delay = INITIAL_OBSTACLE_DELAY
    /\ coin_spawn_timer = 0
    /\ coin_spawn_delay = COIN_DELAY
    /\ powerup_spawn_timer = 0
    /\ powerup_spawn_delay = POWERUP_DELAY
    /\ shield_active = FALSE
    /\ shield_timer = 0
    /\ magnet_active = FALSE
    /\ magnet_timer = 0
    /\ double_score_active = FALSE
    /\ double_score_timer = 0
    /\ frame = 0
    /\ accepted = 0
    /\ move_updates = 0
    /\ since = [shield |-> 0, magnet |-> 0, double_score |-> 0]
    /\ activations = << >>
    /\ faced = << >>

\* restart_game (mutant: the spawn timers are not reset)
restart_game_keepTimers ==
    /\ player' = NewPlayer
    /\ obstacles' = << >>
    /\ coins' = << >>
    /\ power_ups' = << >>
    /\ particles' = << >>
    /\ score' = 0
    /\ coins_collected' = 0
    /\ game_over' = FALSE
    /\ background_y' = 0
    /\ shield_active' = FALSE
    /\ shield_timer' = 0
    /\ magnet_active' = FALSE
    /\ magnet_timer' = 0
    /\ double_score_active' = FALSE
    /\ double_score_timer' = 0
    /\ UNCHANGED <<high_score, obstacle_spawn_timer, obstacle_spawn_delay,
                   coin_spawn_timer, coin_spawn_delay,
                   powerup_spawn_timer, powerup_spawn_delay>>

\* (mutant: the flags of the effects are cleared and their timers kept)
restart_game_keepEffectTimers ==
    /\ player' = NewPlayer
    /\ obstacles' = << >>
    /\ coins' = << >>
    /\ power_ups' = << >>
    /\ particles' = << >>
    /\ score' = 0
    /\ coins_collected' = 0
    /\ game_over' = FALSE
    /\ background_y' = 0
    /\ obstacle_spawn_timer' = 0
    /\ obstacle_spawn_delay' = INITIAL_OBSTACLE_DELAY
    /\ coin_spawn_timer' = 0
    /\ coin_spawn_delay' = COIN_DELAY
    /\ powerup_spawn_timer' = 0
    /\ powerup_spawn_delay' = POWERUP_DELAY
    /\ shield_active' = FALSE
    /\ magnet_active' = FALSE
    /\ double_score_active' = FALSE
    /\ UNCHANGED <<high_score, shield_timer, magnet_timer, double_score_timer>>

restart_game ==
    /\ player' = NewPlayer
    /\ obstacles' = << >>
    /\ coins' = << >>
    /\ power_ups' = << >>
    /\ particles' = << >>
    /\ score' = 0
    /\ coins_collected' = 0
    /\ game_over' = FALSE
    /\ background_y' = 0
    /\ obstacle_spawn_timer' = 0
    /\ obstacle_spawn_delay' = INITIAL_OBSTACLE_DELAY
    /\ coin_spawn_timer' = 0
    /\ coin_spawn_delay' = COIN_DELAY
    /\ powerup_spawn_timer' = 0
    /\ powerup_spawn_delay' = POWERUP_DELAY
    /\ shield_active' = FALSE
    /\ shield_timer' = 0
    /\ magnet_active' = FALSE
    /\ magnet_timer' = 0
    /\ double_score_active' = FALSE
    /\ double_score_timer' = 0
    /\ UNCHANGED high_score

\* "if self.game_over: return" at the head of update_game
\* (mutant: the early return is missing)
FrameSkipped_never == FALSE
FrameSkipped == game_over

\* handle_events, one KEYDOWN event
\* (mutant: K_SPACE restarts whether or not the game is over)
KeyDown_restartAnytime(key) ==
    IF key = "K_SPACE"
    THEN /\ restart_game
         /\ faced' = << >>
         /\ UNCHANGED <<frame, accepted, move_updates, since, activations>>
    ELSE IF game_over
    THEN UNCHANGED vars
    ELSE LET p == IF key \in {"K_LEFT", "K_a"} THEN move_left(player)
                  ELSE IF key \in {"K_RIGHT", "K_d"} THEN move_right(player)
                  ELSE player
         IN  /\ player' = p
             /\ accepted' = IF p # player THEN accepted + 1 ELSE accepted
             /\ move_updates' = IF p # player THEN 0 ELSE move_updates
             /\ faced' = IF p # player THEN [i \in DOMAIN faced |-> FALSE] ELSE faced
             /\ UNCHANGED <<obstacles, coins, power_ups, particles,
                            score, coins_collected, high_score, game_over, background_y,
                            obstacle_spawn_timer, obstacle_spawn_delay,
                            coin_spawn_timer, coin_spawn_delay,
                            powerup_spawn_timer, powerup_spawn_delay,
                            shield_active, shield_timer, magnet_active, magnet_timer,
                            double_score_active, double_score_timer,
                            frame, since, activations>>
KeyDown(key) ==
    IF game_over
    THEN IF key = "K_SPACE"
         THEN /\ restart_game
              /\ faced' = << >>
              /\ UNCHANGED <<frame, accepted, move_updates, since, activations>>
         ELSE UNCHANGED vars
    ELSE LET p == IF key \in {"K_LEFT", "K_a"} THEN move_left(player)
                  ELSE IF key \in {"K_RIGHT", "K_d"} THEN move_right(player)
                  ELSE player
         IN  /\ player' = p
             /\ accepted' = IF p # player THEN accepted + 1 ELSE accepted
             /\ move_updates' = IF p # player THEN 0 ELSE move_updates
             /\ faced' = IF p # player THEN [i \in DOMAIN faced |-> FALSE] ELSE faced
             /\ UNCHANGED <<obstacles, coins, power_ups, particles,
                            score, coins_collected, high_score, game_over, background_y,
                            obstacle_spawn_timer, obstacle_spawn_delay,
                            coin_spawn_timer, coin_spawn_delay,
                            powerup_spawn_timer, powerup_spawn_delay,
                            shield_active, shield_timer, magnet_active, magnet_timer,
                            double_score_active, double_score_timer,
                            frame, since, activations>>

\* update_game past the early return; lane, coin_lane, powerup_lane and
\* power_type are what random.randint and random.choice return
LiveFrame(lane, coin_lane, powerup_lane, power_type) ==
    LET \* self.player.update()
        p1 == Player_update(player)
        \* advance and prune; an obstacle leaving the screen scores
        obs1 == ObstaclesUpdated(obstacles)
        score1 == AddScore(score,
                           Cardinality(ObstaclesGone(obstacles)),
                           ScoreGain(OBSTACLE_SCORE, double_score_active))
        coins1 == CoinsUpdated(coins)
        ups1 == PowerUpsUpdated(power_ups)
        parts1 == ParticlesUpdated(particles)
        \* spawning
        ospawn == DelayReached(obstacle_spawn_timer + 1, obstacle_spawn_delay)
        obs2 == IF ospawn THEN Append(obs1, NewObstacle(lane)) ELSE obs1
        cspawn == SpawnDue(coin_spawn_timer + 1, coin_spawn_delay)
        coins2 == IF cspawn THEN Append(coins1, NewCoin(coin_lane)) ELSE coins1
        uspawn == SpawnDue(powerup_spawn_timer + 1, powerup_spawn_delay)
        ups2 == IF uspawn THEN Append(ups1, NewPowerUp(powerup_lane, power_type)) ELSE ups1
        \* power-up timers
        sh == EffectTick(shield_active, shield_timer)
        mg == EffectTick(magnet_active, magnet_timer)
        ds == EffectTick(double_score_active, double_score_timer)
        \* obstacle collisions: the first overlap decides, then "break"
        hit == FirstHit(Player_get_rect(p1), obs2)
        crash == hit # 0 /\ Fatal(p1)
        obs3 == IF hit # 0 /\ ~crash THEN RemoveAt(obs2, hit) ELSE obs2
        \* the history of the obstacles kept, and of the one created
        gone == ObstaclesGone(obstacles)
        faced1 == SelectSeq([i \in DOMAIN faced |-> [v |-> faced[i], keep |-> i \notin gone]],
                            LAMBDA e : e.keep)
        faced2 == [i \in DOMAIN faced1 |-> faced1[i].v]
                  \o (IF ospawn THEN <<lane = p1.current_lane /\ ~p1.moving>> ELSE << >>)
        faced3 == IF hit # 0 /\ ~crash THEN RemoveAt(faced2, hit) ELSE faced2
        high1 == IF crash THEN NewHighScore(score1, high_score) ELSE high_score
        parts2 == parts1 \o (IF hit = 0 THEN << >>
                             ELSE IF crash THEN create_particles(CRASH_PARTICLES)
                             ELSE create_particles(SHIELD_HIT_PARTICLES))
        \* coin collisions and the magnet
        taken == {i \in DOMAIN coins2 : CoinTaken(mg.active, p1, coins2[i])}
        pulled == {i \in DOMAIN coins2 : MagnetAttracts(mg.active, p1, coins2[i])}
        coins4 == CoinsAfterCollision(p1, coins2, taken, pulled)
        score2 == AddScore(score1, Cardinality(taken), ScoreGain(COIN_SCORE, ds.active))
        parts3 == parts2
                  \o create_particles(MAGNET_PARTICLES * Cardinality(pulled)
                                      + COIN_PARTICLES * Cardinality(taken))
        \* power-up collisions and activate_powerup
        got == {i \in DOMAIN ups2 : PowerUpTaken(p1, ups2[i])}
        types == {ups2[i].type : i \in got}
        ups3 == SelectSeq(ups2, LAMBDA u : ~PowerUpTaken(p1, u))
        parts4 == parts3 \o create_particles(POWERUP_PARTICLES * Cardinality(got))
        shield_on == "shield" \in types
        magnet_on == "magnet" \in types
        double_on == "double_score" \in types
        p2 == PlayerAfterPickup(shield_on, p1)
        sh2 == EffectAfterPickup(shield_on, sh)
        mg2 == EffectAfterPickup(magnet_on, mg)
        ds2 == EffectAfterPickup(double_on, ds)
        double_end == ds2.active
        picked == SelectSeq(ups2, LAMBDA u : PowerUpTaken(p1, u))
    IN  /\ player' = p2
        /\ obstacles' = obs3
        /\ coins' = coins4
        /\ power_ups' = ups3
        /\ particles' = parts4
        /\ obstacle_spawn_timer' = IF ospawn THEN 0 ELSE obstacle_spawn_timer + 1
        /\ obstacle_spawn_delay' = IF ospawn /\ DelayAboveFloor(obstacle_spawn_delay)
                                   THEN obstacle_spawn_delay - DELAY_STEP
                                   ELSE obstacle_spawn_delay
        /\ coin_spawn_timer' = IF cspawn THEN 0 ELSE coin_spawn_timer + 1
        /\ powerup_spawn_timer' = IF uspawn THEN 0 ELSE powerup_spawn_timer + 1
        /\ UNCHANGED <<coin_spawn_delay, powerup_spawn_delay>>
        /\ shield_active' = sh2.active
        /\ shield_timer' = sh2.timer
        /\ magnet_active' = mg2.active
        /\ magnet_timer' = mg2.timer
        /\ double_score_active' = ds2.active
        /\ double_score_timer' = ds2.timer
        /\ game_over' = crash
        /\ high_score' = high1
        /\ coins_collected' = coins_collected + Cardinality(taken)
        /\ background_y' = IF background_y + BACKGROUND_STEP >= SCREEN_HEIGHT
                           THEN 0 ELSE background_y + BACKGROUND_STEP
        /\ score' = AddScore(score2, 1, ScoreGain(IDLE_SCORE, double_end))
        /\ frame' = frame + 1
        /\ accepted' = 0
        /\ move_updates' = IF player.moving THEN move_updates + 1 ELSE move_updates
        /\ since' = [shield |-> SinceAfter(shield_on, shield_active, since.shield),
                     magnet |-> SinceAfter(magnet_on, magnet_active, since.magnet),
                     double_score |->
                        SinceAfter(double_on, double_score_active, since.double_score)]
        /\ faced' = [i \in DOMAIN faced3 |->
                        /\ faced3[i]
                        /\ ~player.moving
                        /\ ~player.invulnerable
                        /\ ~p2.invulnerable]
        /\ activations' = activations
                           \o [i \in DOMAIN picked |->
                                 [type |-> picked[i].type, frame |-> frame + 1]]

\* activate_powerup, called on its own
activate_powerup(power_type) ==
    LET sh == EffectAfterPickup(power_type = "shield",
                                [active |-> shield_active, timer |-> shield_timer])
        mg == EffectAfterPickup(power_type = "magnet",
                                [active |-> magnet_active, timer |-> magnet_timer])
        ds == EffectAfterPickup(power_type = "double_score",
                                [active |-> double_score_active,
                                 timer |-> double_score_timer])
    IN  /\ shield_active' = sh.active
        /\ shield_timer' = sh.timer
        /\ magnet_active' = mg.active
        /\ magnet_timer' = mg.timer
        /\ double_score_active' = ds.active
        /\ double_score_timer' = ds.timer
        /\ player' = PlayerAfterPickup(power_type = "shield", player)
        /\ since' = [shield |-> SinceAfter(power_type = "shield", FALSE, since.shield),
                     magnet |-> SinceAfter(power_type = "magnet", FALSE, since.magnet),
                     double_score |->
                        SinceAfter(power_type = "double_score", FALSE,
                                   since.double_score)]
        /\ activations' = Append(activations, [type |-> power_type, frame |-> frame])
        /\ UNCHANGED <<obstacles, coins, power_ups, particles,
                       score, coins_collected, high_score, game_over, background_y,
                       obstacle_spawn_timer, obstacle_spawn_delay,
                       coin_spawn_timer, coin_spawn_delay,
                       powerup_spawn_timer, powerup_spawn_delay,
                       frame, accepted, move_updates, faced>>

\* update_game, one call; limit bounds the live frames explored, and the lane
\* and type sets bound what random.randint and random.choice return
update_game_in(limit, obstacle_lanes, coin_lanes, powerup_lanes, power_types) ==
    IF FrameSkipped
    THEN UNCHANGED vars
    ELSE /\ frame < limit
         /\ \E lane \in (IF DelayReached(obstacle_spawn_timer + 1, obstacle_spawn_delay)
                         THEN obstacle_lanes ELSE {0}) :
            \E coin_lane \in (IF SpawnDue(coin_spawn_timer + 1, coin_spawn_delay)
                              THEN coin_lanes ELSE {0}) :
            \E powerup_lane \in (IF SpawnDue(powerup_spawn_timer + 1, powerup_spawn_delay)
                                 THEN powerup_lanes ELSE {0}) :
            \E power_type \in (IF SpawnDue(powerup_spawn_timer + 1, powerup_spawn_delay)
                               THEN power_types ELSE {"shield"}) :
               LiveFrame(lane, coin_lane, powerup_lane, power_type)

update_game(limit) == update_game_in(limit, Lanes, Lanes, Lanes, PowerTypes)

\* Game.run: handle_events (any number of key events), then update_game
KeyEvent == \E key \in Keys : KeyDown(key)
Step == update_game(MaxFrame)
Next == KeyEvent \/ Step
Spec == Init /\ [][Next]_vars

\* the same loop with the restart key as the only key pressed
RestartKey == KeyDown("K_SPACE")
ReplayStep == update_game(MaxReplayFrame)
NextReplay == RestartKey \/ ReplayStep
SpecReplay == Init /\ [][NextReplay]_vars

\* the same loop with no key pressed
LongStep == update_game(MaxLongFrame)
NextLong == LongStep
SpecLong == Init /\ [][NextLong]_vars

\* activate_powerup called on a running session at any of its first frames,
\* whatever the state of the effect, with no key pressed and every entity
\* created in the left lane
ActivateCall ==
    /\ ~game_over
    /\ Len(activations) < MaxActivations
    /\ frame < MaxActivateAt
    /\ \E power_type \in PowerTypes : activate_powerup(power_type)
ActivateStep == update_game_in(MaxActivateFrame, {0}, {0}, {0}, PowerTypes)
NextActivate == ActivateCall \/ ActivateStep
SpecActivate == Init /\ [][NextActivate]_vars

\* a session whose first power-up is a magnet in the middle lane, with
\* obstacles in the left lane and coins in the left and middle lanes; the
\* player stands still until the magnet is picked up and steers afterwards
MagnetKey ==
    /\ frame >= MagnetKeysFrom
    /\ \E key \in MoveKeys : KeyDown(key)
MagnetStep == update_game_in(MaxMagnetFrame, {0}, {0, 1}, {1}, {"magnet"})
NextMagnet == MagnetKey \/ MagnetStep
SpecMagnet == Init /\ [][NextMagnet]_vars

\* a session in which activate_powerup is called once when the first power-up
\* is created and the player steers from then on; obstacles and coins in the
\* left lane, the power-up in the middle or right lane
PickupCall ==
    /\ ~game_over
    /\ frame = PickupFrom
    /\ activations = << >>
    /\ \E power_type \in PowerTypes : activate_powerup(power_type)
PickupKey ==
    /\ frame >= PickupFrom
    /\ \E key \in MoveKeys : KeyDown(key)
PickupStep == update_game_in(MaxPickupFrame, {0}, {0}, {1, 2}, PowerTypes)
NextPickup == PickupCall \/ PickupKey \/ PickupStep
SpecPickup == Init /\ [][NextPickup]_vars

\* sessions ended and restarted while an effect runs: no move key, the first
\* power-up in the middle lane, obstacles in the left lane until it is about
\* to be picked up and in the middle lane afterwards
ReviveStep ==
    update_game_in(MaxReviveFrame, IF frame < ReviveFrom THEN {0} ELSE {1},
                   {0, 1}, {1}, PowerTypes)
NextRevive == RestartKey \/ ReviveStep
SpecRevive == Init /\ [][NextRevive]_vars

\* a long session: no key pressed, obstacles in the outer lanes, coins and
\* power-ups in the left lane, so that the player in the middle lane lives
RampStep == update_game_in(MaxRampFrame, {0, 2}, {0}, {0}, PowerTypes)
NextRamp == RampStep
SpecRamp == Init /\ [][NextRamp]_vars

----------------------------------------------------------------------------
\* Properties

\* a step that is one live call of update_game
IsLiveFrame == frame' = frame + 1
\* a step that is restart_game
IsRestart == game_over /\ ~game_over'

\* obstacles that leave the screen in the coming frame
LeavingObstacles == {i \in DOMAIN obstacles : obstacles[i].y + 8 > 600}

\* an obstacle whose inset square (40 x 40, 5 in from the corner), after the
\* coming frame's advance by 8, overlaps the 40 x 60 rectangle at (px, 450)
OverlapsAfterAdvance(o, px) ==
    /\ o.y + 8 <= 600
    /\ px < o.x + 5 + 40
    /\ px + 40 > o.x + 5
    /\ 450 < o.y + 8 + 5 + 40
    /\ 450 + 60 > o.y + 8 + 5

\* the player is invulnerable at the coming frame's collision phase
InvulnerableAtCollision == player.invulnerable /\ player.invulnerable_timer > 1

\* C1: once game_over is true, update_game frames and move keys change nothing
\* of the session state; the only step that changes anything is the restart,
\* which clears game_over.
C1_GameOverTerminal ==
    [][ game_over =>
          \/ UNCHANGED gvars
          \/ /\ ~game_over'
             /\ score' = 0
             /\ obstacles' = << >>
             /\ high_score' = high_score ]_vars

\* game over reached in the middle of a lane change, with entities on screen
C1_Witness ==
    game_over /\ player.moving /\ Len(obstacles) > 0 /\ Len(particles) > 0

\* C2: game_over becomes true in a step if and only if the step is a live frame
\* in whose collision phase the player's rectangle overlaps an obstacle's
\* inset rectangle while the player is not invulnerable.
C2_GameOverIffUnshieldedHit ==
    [][ (game_over' /\ ~game_over)
          <=> /\ IsLiveFrame
              /\ ~InvulnerableAtCollision
              /\ \E i \in DOMAIN obstacles : OverlapsAfterAdvance(obstacles[i], player'.x)
      ]_vars

\* an invulnerable player about to overlap an obstacle
C2_Witness ==
    /\ ~game_over
    /\ frame < MaxLongFrame
    /\ InvulnerableAtCollision
    /\ \E i \in DOMAIN obstacles : OverlapsAfterAdvance(obstacles[i], player.x)

\* C3: score is never negative and, except across a restart, never decreases.
C3_ScoreMonotone ==
    /\ [](score >= 0)
    /\ [][ ~IsRestart => score' >= score ]_vars

\* the score has grown by more than the idle increments: an obstacle left the
\* screen or a coin was collected
C3_Witness == ~game_over /\ score > frame /\ Len(obstacles) > 0

\* C4 as claimed: the flag at the start of the frame decides every scoring
\* event of the frame.
C4_DoubleDecidedAtFrameStart ==
    [][ IsLiveFrame =>
          score' - score =
             (IF double_score_active THEN 2 ELSE 1)
             * (10 * Cardinality(LeavingObstacles)
                + 50 * (coins_collected' - coins_collected)
                + 1) ]_vars

\* C4 as amended: each scoring event is doubled exactly when double-score is
\* active at the moment the event is processed: an obstacle leaving the screen
\* by the flag at the start of the frame, a collected coin by the flag after
\* this frame's timer decrement, the idle increment by the flag at the end of
\* the frame (after this frame's pick-ups).
C4_DoubleDecidedPerEvent ==
    [][ IsLiveFrame =>
          score' - score =
               (IF double_score_active THEN 20 ELSE 10) * Cardinality(LeavingObstacles)
             + (IF double_score_active /\ double_score_timer > 1 THEN 100 ELSE 50)
               * (coins_collected' - coins_collected)
             + (IF double_score_active' THEN 2 ELSE 1) ]_vars

\* the frame in which double-score expires is about to run
C4_Witness == ~game_over /\ double_score_active /\ double_score_timer = 1
              /\ frame < MaxLongFrame

\* C5: restart_game yields the initial session state and keeps high_score.
C5_RestartIsInitial ==
    [][ IsRestart =>
          /\ player' = [ current_lane |-> 1, x |-> 380, moving |-> FALSE,
                         target_x |-> 380, invulnerable |-> FALSE,
                         invulnerable_timer |-> 0, flash_timer |-> 0 ]
          /\ obstacles' = << >> /\ coins' = << >>
          /\ power_ups' = << >> /\ particles' = << >>
          /\ score' = 0 /\ coins_collected' = 0 /\ background_y' = 0
          /\ obstacle_spawn_timer' = 0 /\ obstacle_spawn_delay' = 600
          /\ coin_spawn_timer' = 0 /\ coin_spawn_delay' = 90
          /\ powerup_spawn_timer' = 0 /\ powerup_spawn_delay' = 600
          /\ ~shield_active' /\ shield_timer' = 0
          /\ ~magnet_active' /\ magnet_timer' = 0
          /\ ~double_score_active' /\ double_score_timer' = 0
          /\ high_score' = high_score ]_vars

\* a session restarted after a game over
C5_Witness == ~game_over /\ score = 0 /\ high_score > 0 /\ obstacle_spawn_timer = 0

\* the score when the collision phase of the coming frame runs
ScoreAtCollision ==
    score + (IF double_score_active THEN 20 ELSE 10) * Cardinality(LeavingObstacles)

\* C6: high_score changes only in the frame that ends the session, only when
\* the score then exceeds it, and then to that score; it never decreases.
C6_HighScore ==
    [][ /\ high_score' >= high_score
        /\ high_score' # high_score =>
              /\ IsLiveFrame /\ ~game_over /\ game_over'
              /\ ScoreAtCollision > high_score
              /\ high_score' = ScoreAtCollision
        /\ (IsLiveFrame /\ game_over' /\ ScoreAtCollision > high_score)
              => high_score' = ScoreAtCollision ]_vars

\* a session that ended below the recorded high score
C6_Witness == game_over /\ high_score > score

\* C7: the player's lane is always 0, 1 or 2.
C7_LaneInRange == player.current_lane \in {0, 1, 2}

\* the player stands in an edge lane, where a request outward is out of range
C7_Witness == player.current_lane = 0 /\ ~player.moving /\ ~game_over

\* C8: whenever x equals target_x the moving flag is false.
C8_MovingClearsAtTarget == (player.x = player.target_x) => ~player.moving

\* the update in which x reached target_x has run
C8_Witness ==
    /\ move_updates = 23
    /\ player.x = player.target_x
    /\ player.current_lane = 2

\* C9: a request while moving, or toward a lane outside 0..2, changes nothing
\* of the player; a key step that does change the player is a request accepted
\* while not moving, by one lane and inside 0..2, and at most one is accepted
\* between two frames.
C9_RequestsRejected ==
    /\ [](/\ player.moving =>
               move_left(player) = player /\ move_right(player) = player
          /\ player.current_lane = 0 => move_left(player) = player
          /\ player.current_lane = 2 => move_right(player) = player
          /\ accepted <= 1)
    /\ [][ (frame' = frame /\ ~game_over /\ player' # player) =>
              /\ ~player.moving /\ player'.moving
              /\ player'.current_lane \in {0, 1, 2}
              /\ player'.current_lane - player.current_lane \in {-1, 1}
              /\ player'.x = player.x
              /\ player'.target_x # player.target_x
              /\ accepted = 0 /\ accepted' = 1 ]_vars

\* a request has been accepted and no frame has run since
C9_Witness == player.moving /\ accepted = 1 /\ ~game_over

\* the distance of a lane change and the updates it takes
LaneDistance == 400 - 133
UpdatesPerMove == (LaneDistance + 11) \div 12

\* C10 as claimed: every update of a lane change moves x by exactly 12.
C10_EveryStepTwelve ==
    [][ (IsLiveFrame /\ player.moving) =>
           Abs(player'.x - player.x) = 12 ]_vars

\* C10 as amended: an update moves x by exactly 12 toward target_x while the
\* remaining distance is at least 12 and otherwise by the remainder (3) onto
\* target_x, never past it; after exactly ceil(267/12) = 23 updates x equals
\* target_x and moving is false.
C10_SlideToTarget ==
    /\ [](player.moving =>
             /\ move_updates \in 0..(UpdatesPerMove - 1)
             /\ Abs(player.x - player.target_x) = LaneDistance - 12 * move_updates)
    /\ [][ (IsLiveFrame /\ player.moving) =>
             IF Abs(player.x - player.target_x) >= 12
             THEN /\ Abs(player'.x - player.x) = 12
                  /\ Abs(player'.x - player'.target_x)
                       = Abs(player.x - player.target_x) - 12
                  /\ player'.moving
             ELSE /\ player'.x = player.target_x
                  /\ Abs(player'.x - player.x) = LaneDistance % 12
                  /\ ~player'.moving
                  /\ move_updates' = UpdatesPerMove ]_vars

\* a lane change to the left lane has completed
C10_Witness ==
    /\ move_updates = UpdatesPerMove
    /\ ~player.moving
    /\ player.x = player.target_x
    /\ player.current_lane = 0

\* the three effects, their flags and their counters
Effects == {"shield", "magnet", "double_score"}
Active(e) == CASE e = "shield" -> shield_active
               [] e = "magnet" -> magnet_active
               [] e = "double_score" -> double_score_active
Timer(e) == CASE e = "shield" -> shield_timer
              [] e = "magnet" -> magnet_timer
              [] e = "double_score" -> double_score_timer

\* effect e is picked up in this step
Activated(e) == IsLiveFrame /\ Active(e)' /\ since'[e] = 0

\* C11: an effect activated and not re-activated has its counter decremented
\* once per live frame: k frames after the activation the counter is 300 - k;
\* the effect becomes inactive in the 300th frame after the activation, when
\* the counter is 0, never earlier, and the counter is never negative.
C11_EffectLastsDuration ==
    /\ [](\A e \in Effects :
             /\ Timer(e) >= 0
             /\ Active(e) => /\ since[e] \in 0..299
                             /\ Timer(e) = 300 - since[e])
    /\ [][ \A e \in Effects :
             /\ (IsLiveFrame /\ Active(e) /\ ~Activated(e))
                  => Timer(e)' = Timer(e) - 1
             /\ (Active(e) /\ ~Active(e)')
                  => \/ IsRestart
                     \/ IsLiveFrame /\ since'[e] = 300 /\ Timer(e)' = 0 ]_vars

\* the magnet has just expired, 300 frames after its pick-up
C11_Witness == ~magnet_active /\ since.magnet = 300 /\ magnet_timer = 0

\* C12: while an effect is active its counter does not increase from one frame
\* to the next, and the effect is active exactly while its counter is above 0.
C12_ActiveWhilePositive ==
    /\ [](\A e \in Effects : Active(e) <=> Timer(e) > 0)
    /\ [][ \A e \in Effects :
             (IsLiveFrame /\ Active(e) /\ Active(e)') => Timer(e)' <= Timer(e) ]_vars

\* double-score has run down to its last frame and expired
C12_Witness ==
    ~double_score_active /\ since.double_score = 300 /\ double_score_timer = 0

\* C13: player.invulnerable equals shield_active after every frame, key and
\* restart; a shield pick-up sets both and the expiry frame clears both.
C13_ShieldLockstep ==
    /\ [](player.invulnerable = shield_active)
    /\ [][ /\ Activated("shield") => player'.invulnerable /\ shield_active'
           /\ (shield_active /\ ~shield_active') => ~player'.invulnerable
           /\ IsRestart => ~player'.invulnerable /\ ~shield_active' ]_vars

\* the shield has been picked up and has expired again
C13_Witness ==
    ~shield_active /\ ~player.invulnerable /\ since.shield = 300 /\ frame > 0

\* the entities of a collection that were created in the frame just run: they
\* are the only ones at the creation height
CreatedObstacles(obs) == {i \in DOMAIN obs : obs[i].y = -50}
CreatedCoins(cs) == {i \in DOMAIN cs : cs[i].y = 2 * (-30)}
CreatedPowerUps(us) == {i \in DOMAIN us : us[i].y = -40}

\* C19: each category's counter grows by one per live frame and returns to 0
\* exactly in the frames that create one entity of the category; a coin is
\* created exactly every 90th frame and a power-up exactly every 600th; an
\* obstacle is created exactly when its counter reaches the current delay
\* (obstacle_spawn_delay is kept in tenths of a frame).
C19_SpawnCounters ==
    /\ [](/\ coin_spawn_timer = frame % 90
          /\ powerup_spawn_timer = frame % 600
          /\ obstacle_spawn_timer * 10 <= obstacle_spawn_delay
          /\ Cardinality(CreatedCoins(coins)) <= 1
          /\ Cardinality(CreatedPowerUps(power_ups)) <= 1
          /\ Cardinality(CreatedObstacles(obstacles)) <= 1)
    /\ [][ IsLiveFrame =>
             /\ IF (frame + 1) % 90 = 0
                THEN coin_spawn_timer' = 0 /\ Cardinality(CreatedCoins(coins')) = 1
                ELSE /\ coin_spawn_timer' = coin_spawn_timer + 1
                     /\ CreatedCoins(coins') = {}
             /\ IF (frame + 1) % 600 = 0
                THEN /\ powerup_spawn_timer' = 0
                     /\ Cardinality(CreatedPowerUps(power_ups')) = 1
                ELSE /\ powerup_spawn_timer' = powerup_spawn_timer + 1
                     /\ CreatedPowerUps(power_ups') = {}
             /\ IF obstacle_spawn_timer' = 0
                THEN /\ (obstacle_spawn_timer + 1) * 10 >= obstacle_spawn_delay
                     /\ Cardinality(CreatedObstacles(obstacles')) = 1
                ELSE /\ obstacle_spawn_timer' = obstacle_spawn_timer + 1
                     /\ (obstacle_spawn_timer + 1) * 10 <= obstacle_spawn_delay
                     /\ CreatedObstacles(obstacles') = {} ]_vars

\* the frame that creates the first power-up has run: its counter is back at
\* 0 while the coin counter, reset at frame 540, stands at 60
C19_Witness ==
    /\ frame = 600
    /\ powerup_spawn_timer = 0
    /\ coin_spawn_timer = 60
    /\ Cardinality(CreatedPowerUps(power_ups)) = 1
    /\ CreatedCoins(coins) = {}

\* the obstacles after the coming frame's advance that are still on screen
StayingObstacles ==
    SelectSeq([i \in DOMAIN obstacles |-> [obstacles[i] EXCEPT !.y = @ + 8]],
              LAMBDA o : o.y <= 600)

\* an advanced obstacle's inset square overlaps the 40 x 60 rectangle at px
Overlaps(o, px) ==
    /\ px < o.x + 5 + 40
    /\ px + 40 > o.x + 5
    /\ 450 < o.y + 5 + 40
    /\ 450 + 60 > o.y + 5

\* a sequence without its i-th element, and the least element of a set
Without(seq, i) == SubSeq(seq, 1, i - 1) \o SubSeq(seq, i + 1, Len(seq))
Least(S) == CHOOSE i \in S : \A j \in S : i <= j

\* a collection without the obstacle created in the frame just run
WithoutCreated(obs) ==
    IF CreatedObstacles(obs) = {} THEN obs ELSE SubSeq(obs, 1, Len(obs) - 1)

\* the obstacles the invulnerable player overlaps in the coming frame
ShieldedHits ==
    {i \in DOMAIN StayingObstacles :
        InvulnerableAtCollision /\ Overlaps(StayingObstacles[i], player'.x)}

\* C20: an obstacle in the collection is at y = -50 + 8k, k in 0..81; in a
\* live frame the collection loses exactly the obstacles whose 82nd update
\* takes them past y = 600, each adding the survival score once, and at most
\* the one destroyed under the shield, adding nothing; restart empties the
\* collection; no other step changes it.  The score of a frame has no term
\* for coins or power-ups that leave the screen.
C20_ObstacleLeavesOnce ==
    /\ [](\A i \in DOMAIN obstacles :
             \E k \in 0..81 : obstacles[i].y = -50 + 8 * k)
    /\ [][ /\ IsLiveFrame =>
                /\ WithoutCreated(obstacles') =
                      IF ShieldedHits = {} THEN StayingObstacles
                      ELSE Without(StayingObstacles, Least(ShieldedHits))
                /\ score' - score =
                       (IF double_score_active THEN 20 ELSE 10)
                         * (Len(obstacles) - Len(StayingObstacles))
                     + (IF double_score_active /\ double_score_timer > 1
                        THEN 100 ELSE 50) * (coins_collected' - coins_collected)
                     + (IF double_score_active' THEN 2 ELSE 1)
           /\ IsRestart => obstacles' = << >>
           /\ (~IsLiveFrame /\ ~IsRestart) => obstacles' = obstacles ]_vars

\* the first obstacle, created in frame 60, has left in frame 142 and added
\* the survival score to the 142 idle points
C20_Witness ==
    /\ frame = 142
    /\ score = 152
    /\ Len(obstacles) = 1
    /\ ~game_over

\* the session state apart from the player
SessionState ==
    <<obstacles, coins, power_ups, particles, score, coins_collected, high_score,
      game_over, background_y, obstacle_spawn_timer, obstacle_spawn_delay,
      coin_spawn_timer, coin_spawn_delay, powerup_spawn_timer, powerup_spawn_delay,
      shield_active, shield_timer, magnet_active, magnet_timer,
      double_score_active, double_score_timer>>

\* C15: the restart key while the game is running changes nothing; a move key
\* while the game is over changes nothing; a step between two frames changes
\* the player only while the game is running (or by the restart) and changes
\* the rest of the session only by a restart from game over.
C15_InputGating ==
    [][ /\ (~game_over /\ KeyDown("K_SPACE")) => UNCHANGED gvars
        /\ \A key \in MoveKeys : (game_over /\ KeyDown(key)) => UNCHANGED gvars
        /\ (frame' = frame /\ SessionState' # SessionState)
              => game_over /\ ~game_over' /\ score' = 0
        /\ (frame' = frame /\ player' # player /\ ~IsRestart)
              => ~game_over /\ accepted' = accepted + 1 ]_vars

\* a session that was restarted from game over is running, and a move key has
\* been honoured in it
C15_Witness == ~game_over /\ high_score > 0 /\ score > 0 /\ accepted = 1

ActivatedAt(e) ==
    {activations[i].frame : i \in {j \in DOMAIN activations : activations[j].type = e}}
LastActivatedAt(e) == CHOOSE f \in ActivatedAt(e) : \A g \in ActivatedAt(e) : g <= f

\* C17: every activation, of an active effect too, sets the counter to
\* exactly 300: no counter exceeds 300, and an effect is active exactly
\* during the 300 frames that follow its latest activation, with counter 300
\* minus the frames run since.
C17_NoStacking ==
    /\ [](\A e \in Effects :
             /\ Timer(e) <= 300
             /\ Active(e) <=> /\ ActivatedAt(e) # {}
                              /\ frame < LastActivatedAt(e) + 300
             /\ Active(e) => Timer(e) = 300 - (frame - LastActivatedAt(e)))
    /\ [][ \A e \in Effects :
             (/\ Len(activations') > Len(activations)
              /\ activations'[Len(activations')].type = e)
                => Active(e)' /\ Timer(e)' = 300 ]_vars

\* the shield was activated, activated again some frames later while still
\* active, and has expired 300 frames after the second activation
C17_Witness ==
    /\ Len(activations) = 2
    /\ activations[1].type = "shield"
    /\ activations[2].type = "shield"
    /\ activations[2].frame > activations[1].frame
    /\ frame = activations[2].frame + 300
    /\ ~shield_active
    /\ shield_timer = 0

\* the coins after the coming frame's advance that are still on screen
\* (coin x, y in half pixels)
StayingCoins ==
    SelectSeq([i \in DOMAIN coins |-> [coins[i] EXCEPT !.y = @ + 2 * 8]],
              LAMBDA c : c.y <= 2 * 600)

\* an advanced coin's 30 x 30 rectangle overlaps the 40 x 60 rectangle at px
CoinOverlaps(c, px) ==
    /\ px < c.x \div 2 + 30
    /\ px + 40 > c.x \div 2
    /\ 450 < c.y \div 2 + 30
    /\ 450 + 60 > c.y \div 2

\* an advanced coin's centre is nearer than 80 to the centre of the player at px
CoinNear(c, px) ==
    LET dx == 2 * (px + 20) - (c.x + 30)
        dy == 2 * (450 + 30) - (c.y + 30)
    IN  dx * dx + dy * dy < (2 * 80) * (2 * 80)

\* the magnet is active at the coming frame's collision phase
MagnetAtCollision == magnet_active /\ magnet_timer > 1

\* the player's x after the coming frame's update
XAfterUpdate ==
    IF ~player.moving THEN player.x
    ELSE IF Abs(player.target_x - player.x) < 12 THEN player.target_x
    ELSE IF player.target_x > player.x THEN player.x + 12 ELSE player.x - 12

\* C14: the coins collected in a live frame are, with the magnet active at
\* the collision phase, the coins nearer than 80 (whether or not their
\* rectangle overlaps the player's) together with the overlapping ones; with
\* the magnet inactive, the overlapping ones only.
C14_MagnetCollects ==
    [][ IsLiveFrame =>
          LET collected == {i \in DOMAIN StayingCoins :
                              \/ CoinOverlaps(StayingCoins[i], player'.x)
                              \/ /\ MagnetAtCollision
                                 /\ CoinNear(StayingCoins[i], player'.x)}
          IN  /\ coins_collected' - coins_collected = Cardinality(collected)
              /\ Len(coins') = Len(StayingCoins) - Cardinality(collected)
                                 + Cardinality(CreatedCoins(coins')) ]_vars

\* with the magnet active, a coin is about to be nearer than 80 to the
\* player without overlapping the player's rectangle
C14_Witness ==
    /\ ~game_over
    /\ frame < MaxMagnetFrame
    /\ MagnetAtCollision
    /\ \E i \in DOMAIN StayingCoins :
          /\ CoinNear(StayingCoins[i], XAfterUpdate)
          /\ ~CoinOverlaps(StayingCoins[i], XAfterUpdate)

\* C18 as claimed (obstacle_spawn_delay in tenths of a frame): the delay
\* starts at 60, stays between the floor 30 and 60, changes only by a restart
\* (to 60) or by an obstacle spawn while it is above 30, and then by exactly
\* minus 0.3.
C18_DelayNeverBelowFloor ==
    /\ [](obstacle_spawn_delay >= 300 /\ obstacle_spawn_delay <= 600)
    /\ [][ /\ obstacle_spawn_delay' # obstacle_spawn_delay =>
                \/ IsRestart /\ obstacle_spawn_delay' = 600
                \/ /\ IsLiveFrame
                   /\ obstacle_spawn_timer' = 0
                   /\ obstacle_spawn_delay > 300
                   /\ obstacle_spawn_delay' = obstacle_spawn_delay - 3
           /\ (IsLiveFrame /\ obstacle_spawn_timer' = 0 /\ obstacle_spawn_delay > 300)
                => obstacle_spawn_delay' = obstacle_spawn_delay - 3 ]_vars

\* the delay after the 101st obstacle spawn of a session
C18_Witness == obstacle_spawn_delay = 297 /\ obstacle_spawn_timer = 0 /\ ~game_over

\* the coins of a collection that were not created in the frame just run
OlderCoins(cs) == Len(cs) - Cardinality(CreatedCoins(cs))

\* C21: the coins collected in a live frame are exactly the coins that leave
\* the collection while on screen; each adds 1 to coins_collected and 50 to
\* the score (100 when double-score is active at the collision phase); the
\* counter changes in no other step but the restart, which zeroes it.
C21_CoinCollectedOnce ==
    /\ [](coins_collected >= 0)
    /\ [][ /\ IsLiveFrame =>
                LET n == coins_collected' - coins_collected
                IN  /\ n = Len(StayingCoins) - OlderCoins(coins')
                    /\ n >= 0
                    /\ score' - score
                         - (IF double_score_active THEN 20 ELSE 10)
                             * Cardinality(LeavingObstacles)
                         - (IF double_score_active' THEN 2 ELSE 1)
                       = n * (IF double_score_active /\ double_score_timer > 1
                              THEN 100 ELSE 50)
           /\ IsRestart => coins_collected' = 0
           /\ (~IsLiveFrame /\ ~IsRestart) =>
                coins_collected' = coins_collected /\ coins' = coins ]_vars

\* with double-score active, a coin is about to overlap the player
C21_Witness ==
    /\ ~game_over
    /\ frame < MaxLongFrame
    /\ double_score_active /\ double_score_timer > 1
    /\ \E i \in DOMAIN StayingCoins : CoinOverlaps(StayingCoins[i], XAfterUpdate)

\* the power-ups after the coming frame's advance that are still on screen
StayingPowerUps ==
    SelectSeq([i \in DOMAIN power_ups |-> [power_ups[i] EXCEPT !.y = @ + 8]],
              LAMBDA u : u.y <= 600)

\* an advanced power-up's 40 x 40 rectangle overlaps the 40 x 60 rectangle at px
PowerUpOverlaps(u, px) ==
    /\ px < u.x + 40
    /\ px + 40 > u.x
    /\ 450 < u.y + 40
    /\ 450 + 60 > u.y

\* an advanced power-up's centre is nearer than 80 to the centre of the player
PowerUpNear(u, px) ==
    (px + 20 - (u.x + 20)) * (px + 20 - (u.x + 20))
      + (450 + 30 - (u.y + 20)) * (450 + 30 - (u.y + 20)) < 80 * 80

\* a collection without the power-up created in the frame just run
WithoutCreatedPowerUp(us) ==
    IF CreatedPowerUps(us) = {} THEN us ELSE SubSeq(us, 1, Len(us) - 1)

\* C22: in a live frame the power-ups that leave the collection while on
\* screen are exactly those whose rectangle overlaps the player's; the others
\* only fall by 8, magnet or not; the effect of each kind picked up is active
\* with counter 300 after the frame (for the shield, the player's
\* invulnerability too), and an effect of another kind is as this frame's
\* timer decrement leaves it.
C22_PickupByOverlap ==
    [][ IsLiveFrame =>
          LET kinds == {StayingPowerUps[i].type :
                          i \in {j \in DOMAIN StayingPowerUps :
                                   PowerUpOverlaps(StayingPowerUps[j], player'.x)}}
          IN  /\ WithoutCreatedPowerUp(power_ups')
                   = SelectSeq(StayingPowerUps,
                               LAMBDA u : ~PowerUpOverlaps(u, player'.x))
              /\ \A e \in Effects :
                    IF e \in kinds
                    THEN Active(e)' /\ Timer(e)' = 300
                    ELSE /\ Active(e)' = (Active(e) /\ Timer(e) > 1)
                         /\ Timer(e)' = IF Active(e) THEN Timer(e) - 1 ELSE Timer(e)
              /\ "shield" \in kinds =>
                    player'.invulnerable /\ player'.invulnerable_timer = 300 ]_vars

\* with the magnet active, a power-up is about to be nearer than 80 to the
\* steering player without overlapping the player's rectangle
C22_Witness ==
    /\ ~game_over
    /\ frame < MaxPickupFrame
    /\ MagnetAtCollision
    /\ player.moving
    /\ \E i \in DOMAIN StayingPowerUps :
          /\ PowerUpNear(StayingPowerUps[i], XAfterUpdate)
          /\ ~PowerUpOverlaps(StayingPowerUps[i], XAfterUpdate)

\* C23 as claimed: a finished session's score never exceeds high_score.
C23_HighScoreCoversScore == game_over => high_score >= score

\* the session ended by the first obstacle: the idle point of the fatal frame
\* came after high_score was recorded
C23_Witness == game_over /\ score = 117 /\ high_score = 116 /\ frame = 117

\* the first height at which a falling obstacle's inset square reaches the
\* standing player: -50 + 8 * 57, with 406 + 45 > 450
FirstContactY == -50 + 8 * 57

\* C24: an obstacle created in the lane where the player stands, with the
\* player not moving and not invulnerable ever since, never gets below its
\* first contact with the player, and at that height the game is over; an
\* obstacle that leaves the screen and is scored is never such an obstacle.
C24_NoTunnelling ==
    /\ [](/\ Len(faced) = Len(obstacles)
          /\ \A i \in DOMAIN obstacles :
                faced[i] => /\ obstacles[i].lane = player.current_lane
                            /\ obstacles[i].y <= FirstContactY
                            /\ obstacles[i].y = FirstContactY => game_over)
    /\ [][ IsLiveFrame => \A i \in LeavingObstacles : ~faced[i] ]_vars

\* the player changed to the left lane, stood there while an obstacle came
\* down that lane, and was hit at the first contact
C24_Witness ==
    /\ game_over
    /\ player.current_lane = 0
    /\ ~player.moving
    /\ \E i \in DOMAIN obstacles :
          faced[i] /\ obstacles[i].lane = 0 /\ obstacles[i].y = FirstContactY

\* C25: in every state, each effect is active exactly when its timer is above
\* 0, each timer (the player's invulnerable_timer too) lies in 0..300, and
\* shield_timer equals the player's invulnerable_timer.
C25_EffectsConsistent ==
    /\ \A e \in Effects :
          /\ Active(e) <=> Timer(e) > 0
          /\ Timer(e) \in 0..300
    /\ player.invulnerable_timer \in 0..300
    /\ shield_timer = player.invulnerable_timer

\* a session ended while its magnet was running has been restarted before
\* the magnet would have expired
C25_Witness ==
    /\ ~game_over
    /\ score = 0
    /\ high_score > 0
    /\ Len(activations) = 1
    /\ activations[1].type = "magnet"
    /\ frame < activations[1].frame + 300
    /\ ~magnet_active

============================================================================
